---- MODULE Spec2Model ----
(***************************************************************************)
(* Model of tasks/zip_path.py: the ZipPath task, which compresses a file   *)
(* or a directory tree into a zip archive and optionally writes a          *)
(* .resource-meta.xml file next to it.                                     *)
(*                                                                         *)
(* Strings are sequences of one-character strings, so that the string      *)
(* operations of the task (split, strip, lower, replace, suffix handling,  *)
(* glob matching) are computed and not assumed.  A path is a sequence of   *)
(* names; the filesystem is a function from the existing absolute paths to *)
(* their entries.                                                          *)
(***************************************************************************)
EXTENDS Integers, Sequences, FiniteSets, TLC

(***************************************************************************)
(* Bounds of the model.                                                    *)
(***************************************************************************)
\* number of nested "e" directories below d/b in the initial tree
MaxDepth == 1
\* longest exclusion list given as a native list
MaxPatterns == 2

(***************************************************************************)
(* Strings.                                                                *)
(***************************************************************************)
Last(s) == s[Len(s)]

Front(s) == SubSeq(s, 1, Len(s) - 1)

IsPrefix(p, s) == Len(p) <= Len(s) /\ SubSeq(s, 1, Len(p)) = p

\* str.replace(old, new) for single characters
Replace(s, old, new) == [i \in 1..Len(s) |-> IF s[i] = old THEN new ELSE s[i]]

RECURSIVE SplitAcc(_, _, _)
SplitAcc(s, sep, cur) ==
    IF s = <<>> THEN <<cur>>
    ELSE IF Head(s) = sep THEN <<cur>> \o SplitAcc(Tail(s), sep, <<>>)
    ELSE SplitAcc(Tail(s), sep, Append(cur, Head(s)))

\* str.split(sep)
Split(s, sep) == SplitAcc(s, sep, <<>>)

RECURSIVE LStrip(_)
LStrip(s) == IF s # <<>> /\ Head(s) = " " THEN LStrip(Tail(s)) ELSE s

RECURSIVE RStrip(_)
RStrip(s) == IF s # <<>> /\ Last(s) = " " THEN RStrip(Front(s)) ELSE s

\* str.strip()
Strip(s) == RStrip(LStrip(s))

LowerChar(c) ==
    CASE c = "T" -> "t" [] c = "R" -> "r" [] c = "U" -> "u" [] c = "E" -> "e"
      [] c = "Y" -> "y" [] c = "S" -> "s" [] c = "N" -> "n" [] c = "O" -> "o"
      [] OTHER -> c

\* str.lower()
Lower(s) == [i \in 1..Len(s) |-> LowerChar(s[i])]

RECURSIVE Join(_)
\* "/".join(parts): str() of a relative path
Join(parts) ==
    IF parts = <<>> THEN <<>>
    ELSE IF Len(parts) = 1 THEN parts[1]
    ELSE parts[1] \o <<"/">> \o Join(Tail(parts))

RECURSIVE fnmatch(_, _)
\* fnmatch.fnmatch(name, pat) on a POSIX host: * matches any run of
\* characters (the separator included), ? one character, the rest literally
fnmatch(name, pat) ==
    IF pat = <<>> THEN name = <<>>
    ELSE IF Head(pat) = "*"
         THEN fnmatch(name, Tail(pat))
              \/ (name # <<>> /\ fnmatch(Tail(name), pat))
    ELSE IF Head(pat) = "?"
         THEN name # <<>> /\ fnmatch(Tail(name), Tail(pat))
    ELSE name # <<>> /\ Head(name) = Head(pat) /\ fnmatch(Tail(name), Tail(pat))

(***************************************************************************)
(* Paths (pathlib).                                                        *)
(***************************************************************************)
\* working directory of the process
Cwd == << <<"w">> >>

\* stands for "no path yet"
NoPath == << <<>> >>

DotDot == <<".", ".">>

RECURSIVE Normalize(_, _)
Normalize(acc, parts) ==
    IF parts = <<>> THEN acc
    ELSE IF Head(parts) = DotDot
         THEN Normalize(IF acc = <<>> THEN acc ELSE Front(acc), Tail(parts))
    ELSE Normalize(Append(acc, Head(parts)), Tail(parts))

\* Path(s).resolve(): split at the separators, drop empty and "." parts, make
\* absolute against the working directory, fold ".." (no symbolic links)
Resolve(s) ==
    LET parts == SelectSeq(Split(s, "/"), LAMBDA x : x # <<>> /\ x # <<".">>)
        base  == IF s # <<>> /\ s[1] = "/" THEN <<>> ELSE Cwd
    IN  Normalize(<<>>, base \o parts)

Name(p) == Last(p)

Parent(p) == Front(p)

\* PurePath.suffix
Suffix(name) ==
    LET dots == {i \in 1..Len(name) : name[i] = "."}
    IN  IF dots = {} THEN <<>>
        ELSE LET i == CHOOSE j \in dots : \A k \in dots : k <= j
             IN  IF 1 < i /\ i < Len(name) THEN SubSeq(name, i, Len(name))
                 ELSE <<>>

\* PurePath.with_name
WithName(p, name) == Append(Parent(p), name)

\* PurePath.with_suffix
WithSuffix(p, suffix) ==
    LET name == Name(p)
        old  == Suffix(name)
    IN  WithName(p, SubSeq(name, 1, Len(name) - Len(old)) \o suffix)

\* PurePath.relative_to for a path below other
RelativeTo(p, other) == SubSeq(p, Len(other) + 1, Len(p))

(***************************************************************************)
(* Option values handed over by the host: None, a string, a boolean, a     *)
(* list of strings or a dict.  A dict is a function on DictKeys whose      *)
(* missing keys hold AbsentV.                                              *)
(***************************************************************************)
NoneV == [k |-> "none", v |-> <<>>]

AbsentV == [k |-> "absent", v |-> <<>>]

StrV(s) == [k |-> "str", v |-> s]

BoolV(b) == [k |-> "bool", v |-> b]

ListV(l) == [k |-> "list", v |-> l]

DictV(d) == [k |-> "dict", v |-> d]

DictKeys == {"value", "description", "required", "default", "other"}

definition_keys == {"description", "required", "default"}

EmptyDict == [key \in DictKeys |-> AbsentV]

\* Python truthiness of an option value
Truthy(val) ==
    CASE val.k = "none" -> FALSE
      [] val.k = "bool" -> val.v
      [] val.k = "str"  -> val.v # <<>>
      [] val.k = "list" -> val.v # <<>>
      [] OTHER -> TRUE

\* ZipPath._get_option_value applied to the stored value of an option (the
\* host fills self.options from task_config.options, so the second lookup
\* finds what the first one does)
GetOptionValue(value) ==
    IF value.k = "none" THEN NoneV
    ELSE IF value.k # "dict" THEN value
    ELSE LET d    == value.v
             keys == {key \in DictKeys : d[key].k # "absent"}
         IN  IF "value" \in keys THEN d["value"]
             ELSE IF /\ definition_keys \cap keys # {}
                     /\ d["default"].k \notin {"absent", "none"}
                  THEN d["default"]
             ELSE IF Cardinality(keys) = 1 /\ keys \cap definition_keys = {}
                  THEN d[CHOOSE key \in keys : TRUE]
             ELSE NoneV

\* cumulusci process_list_arg: a list as it is, a string split at the commas
\* with each part stripped
process_list_arg(arg) ==
    IF arg.k = "list" THEN arg.v
    ELSE LET parts == Split(arg.v, ",")
         IN  [i \in 1..Len(parts) |-> Strip(parts[i])]

\* IncludeMeta without the lower(): "True" and "YES" would count as false
IncludeMetaCaseSensitive(value) ==
    LET include_meta == GetOptionValue(value)
    IN  IF include_meta.k = "none" THEN FALSE
        ELSE IF include_meta.k = "str"
             THEN include_meta.v \in
                    {<<"t", "r", "u", "e">>, <<"1">>, <<"y", "e", "s">>}
        ELSE Truthy(include_meta)

\* lines 177-183: the truth value of the include_meta option
IncludeMeta(value) ==
    LET include_meta == GetOptionValue(value)
    IN  IF include_meta.k = "none" THEN FALSE
        ELSE IF include_meta.k = "str"
             THEN Lower(include_meta.v) \in
                    {<<"t", "r", "u", "e">>, <<"1">>, <<"y", "e", "s">>}
        ELSE Truthy(include_meta)

(***************************************************************************)
(* Constants of the task.                                                  *)
(***************************************************************************)
\* line 133 and line 135
ZipSuffix == <<".", "z", "i", "p">>

\* line 190
MetaSuffix ==
    <<".", "r", "e", "s", "o", "u", "r", "c", "e", "-", "m", "e", "t", "a",
      ".", "x", "m", "l">>

\* lines 184-188
meta_content ==
    "<?xml version=\"1.0\" encoding=\"UTF-8\"?>\n<StaticResource xmlns=\"http://soap.sforce.com/2006/04/metadata\">\n    <cacheControl>Public</cacheControl>\n    <contentType>application/zip</contentType>\n</StaticResource>"

(***************************************************************************)
(* The filesystem before the run.                                          *)
(*   /w                        working directory                           *)
(*   /w/d/a.txt  /w/d/b/c.txt  /w/d/b/e/f (e nested MaxDepth times)        *)
(*   /w/a  /w/a.zip  /w/n.resource-meta.xml                                *)
(***************************************************************************)
W == <<"w">>

D == <<"d">>

B == <<"b">>

E == <<"e">>

F == <<"f">>

A == <<"a">>

ATxt == <<"a", ".", "t", "x", "t">>

CTxt == <<"c", ".", "t", "x", "t">>

AZip == <<"a">> \o ZipSuffix

NMeta == <<"n">> \o MetaSuffix

RECURSIVE EDir(_)
EDir(n) == IF n = 0 THEN <<W, D, B>> ELSE Append(EDir(n - 1), E)

InitDirs == {<<>>, <<W>>, <<W, D>>} \cup {EDir(n) : n \in 0..MaxDepth}

InitFiles ==
    {<<W, D, ATxt>>, <<W, D, B, CTxt>>, <<W, A>>, <<W, AZip>>, <<W, NMeta>>}
    \cup {Append(EDir(n), F) : n \in 1..MaxDepth}

InitContent(p) ==
    CASE p = <<W, D, ATxt>>    -> "data a.txt"
      [] p = <<W, D, B, CTxt>> -> "data c.txt"
      [] p = <<W, A>>          -> "data a"
      [] p = <<W, AZip>>       -> "data a.zip"
      [] p = <<W, NMeta>>      -> "data n"
      [] OTHER -> <<"data f1", "data f2", "data f3", "data f4">>[Len(p) - 4]

DirEntry == [kind |-> "dir", content |-> ""]

FileEntry(content) == [kind |-> "file", content |-> content]

InitFS ==
    [p \in InitDirs \cup InitFiles |->
        IF p \in InitDirs THEN DirEntry ELSE FileEntry(InitContent(p))]

(***************************************************************************)
(* The options a run may be started with.                                  *)
(***************************************************************************)
Slash == <<"/">>

OZip == <<"o">> \o ZipSuffix

PathOptions ==
    { NoneV,
      StrV(<<>>),
      StrV(<<"z", "z">>),
      StrV(D),
      StrV(Slash \o W \o Slash \o D \o Slash \o DotDot \o Slash \o D \o Slash \o B),
      StrV(<<".">> \o Slash \o AZip),
      StrV(A),
      StrV(NMeta),
      DictV([EmptyDict EXCEPT !["value"] = StrV(D)]),
      DictV([EmptyDict EXCEPT !["description"] = StrV(<<"p">>),
                              !["required"] = BoolV(TRUE)]) }

OutputOptions ==
    { NoneV,
      StrV(<<>>),
      StrV(D \o Slash \o OZip),
      StrV(D \o Slash \o B \o Slash \o E \o Slash \o OZip),
      StrV(<<"n", "e", "w">> \o Slash \o <<"o">>),
      StrV(<<"n">> \o ZipSuffix),
      StrV(Slash \o W \o Slash \o AZip),
      StrV(A \o Slash \o OZip),
      StrV(D),
      DictV([EmptyDict EXCEPT !["description"] = StrV(<<"p">>),
                              !["default"] = StrV(<<"x">> \o MetaSuffix)]) }

PatternSet ==
    { <<"e">>,
      <<"b", "\\", "e">>,
      <<"*", ".", "t", "x", "t">>,
      <<"?", ".", "z", "i", "p">> }

RECURSIVE SetToSeq(_)
SetToSeq(S) ==
    IF S = {} THEN <<>>
    ELSE LET x == CHOOSE y \in S : TRUE IN <<x>> \o SetToSeq(S \ {x})

ExcludeOptions ==
    { ListV(SetToSeq(S)) : S \in {T \in SUBSET PatternSet : Cardinality(T) <= MaxPatterns} }
    \cup { NoneV,
           StrV(<<" ", "b", "/", "*", " ", ",", "f">>),
           DictV([EmptyDict EXCEPT !["other"] = StrV(<<"a", "*">>)]) }

IncludeMetaOptions ==
    { NoneV,
      BoolV(TRUE),
      BoolV(FALSE),
      StrV(<<"T", "r", "u", "e">>),
      StrV(<<"Y", "E", "S">>),
      StrV(<<"1">>),
      StrV(<<"n", "o">>),
      StrV(<<>>),
      StrV(<<"t", "r", "u", "e", " ">>),
      StrV(<<"o", "n">>),
      StrV(<<"y", "e", "s">>),
      StrV(<<"t", "R", "U", "e">>),
      DictV([EmptyDict EXCEPT !["value"] = StrV(<<"y", "e", "s">>)]) }

(***************************************************************************)
(* State.                                                                  *)
(***************************************************************************)
VARIABLES
    options,          \* self.options
    fs,               \* the filesystem
    pc,               \* position of _run_task
    error,            \* the exception _run_task ended with, "" if none
    source_path,      \* line 121
    output_path,      \* lines 129-135
    exclude_patterns, \* lines 141-144
    zipf,             \* the ZipFile handle: "none", "open", "closed"
    members,          \* the members written to the archive, in order
    stack,            \* os.walk: the directories still to visit, next first
    root,             \* os.walk: the directory being processed
    files,            \* os.walk: the files of root not yet processed
    meta_path,        \* line 190
    return_values,    \* self.return_values
    visited,          \* the directories os.walk has listed
    written           \* the paths this run created or wrote to

vars ==
    <<options, fs, pc, error, source_path, output_path, exclude_patterns, zipf,
      members, stack, root, files, meta_path, return_values, visited, written>>

NoResult == [key \in {} |-> NoPath]

exists(p) == p \in DOMAIN fs

is_dir(p) == exists(p) /\ fs[p].kind = "dir"

is_file(p) == exists(p) /\ fs[p].kind = "file"

Init ==
    /\ options \in [path : PathOptions, output : OutputOptions,
                    exclude : ExcludeOptions, include_meta : IncludeMetaOptions]
    /\ fs = InitFS
    /\ pc = "start"
    /\ error = ""
    /\ source_path = NoPath
    /\ output_path = NoPath
    /\ exclude_patterns = <<>>
    /\ zipf = "none"
    /\ members = <<>>
    /\ stack = <<>>
    /\ root = NoPath
    /\ files = {}
    /\ meta_path = NoPath
    /\ return_values = NoResult
    /\ visited = {}
    /\ written = {}

\* an exception leaves _run_task
Raise(e) == pc' = "failed" /\ error' = e

(***************************************************************************)
(* _run_task, step by step.                                                *)
(***************************************************************************)
\* CheckPath without the existence check of lines 123-124
CheckPathNoExistenceCheck ==
    /\ pc = "start"
    /\ LET path_value == GetOptionValue(options.path)
       IN  IF ~Truthy(path_value)
           THEN Raise("ValueError") /\ UNCHANGED source_path
           ELSE /\ source_path' = Resolve(path_value.v)
                /\ pc' = "output"
                /\ UNCHANGED error
    /\ UNCHANGED <<options, fs, output_path, exclude_patterns, zipf, members,
                   stack, root, files, meta_path, return_values, visited, written>>

\* lines 118-124: the path option is required and must exist
CheckPath ==
    /\ pc = "start"
    /\ LET path_value == GetOptionValue(options.path)
       IN  IF ~Truthy(path_value)
           THEN Raise("ValueError") /\ UNCHANGED source_path
           ELSE /\ source_path' = Resolve(path_value.v)
                /\ IF ~exists(source_path')
                   THEN Raise("FileNotFoundError")
                   ELSE pc' = "output" /\ UNCHANGED error
    /\ UNCHANGED <<options, fs, output_path, exclude_patterns, zipf, members,
                   stack, root, files, meta_path, return_values, visited, written>>

\* DefaultOutput appending .zip to a file name as it does to a directory name
DefaultOutputAppend(src) == WithName(src, Name(src) \o ZipSuffix)

\* lines 131-135: the archive path when no output option is given
DefaultOutput(src) ==
    IF is_dir(src) THEN WithName(src, Name(src) \o ZipSuffix)
    ELSE WithSuffix(src, ZipSuffix)

\* lines 127-135
DetermineOutput ==
    /\ pc = "output"
    /\ LET output_value == GetOptionValue(options.output)
       IN  output_path' = IF Truthy(output_value) THEN Resolve(output_value.v)
                          ELSE DefaultOutput(source_path)
    /\ pc' = "mkdir"
    /\ UNCHANGED <<options, fs, error, source_path, exclude_patterns, zipf,
                   members, stack, root, files, meta_path, return_values,
                   visited, written>>

\* the paths from the root down to p
Prefixes(p) == {SubSeq(p, 1, n) : n \in 0..Len(p)}

\* line 138: output_path.parent.mkdir(parents=True, exist_ok=True)
MakeParents ==
    /\ pc = "mkdir"
    /\ LET missing == {q \in Prefixes(Parent(output_path)) : ~exists(q)}
       IN  IF \E q \in Prefixes(Parent(output_path)) : is_file(q)
           THEN Raise("FileExistsError") /\ UNCHANGED <<fs, written>>
           ELSE /\ fs' = [q \in missing |-> DirEntry] @@ fs
                /\ written' = written \cup missing
                /\ pc' = "exclude"
                /\ UNCHANGED error
    /\ UNCHANGED <<options, source_path, output_path, exclude_patterns, zipf,
                   members, stack, root, files, meta_path, return_values, visited>>

\* lines 141-144
GetExclude ==
    /\ pc = "exclude"
    /\ LET exclude_value == GetOptionValue(options.exclude)
       IN  exclude_patterns' = IF Truthy(exclude_value)
                               THEN process_list_arg(exclude_value)
                               ELSE <<>>
    /\ pc' = "open"
    /\ UNCHANGED <<options, fs, error, source_path, output_path, zipf, members,
                   stack, root, files, meta_path, return_values, visited, written>>

\* str() of an absolute path
AbsStr(p) == Slash \o Join(p)

\* lines 34-56: ZipPath._should_exclude
ShouldExclude(file_path, src, patterns) ==
    IF patterns = <<>> THEN FALSE
    ELSE LET rel_str ==
                 IF IsPrefix(src, file_path)
                 THEN Replace(Join(RelativeTo(file_path, src)), "\\", "/")
                 ELSE Replace(AbsStr(file_path), "\\", "/")
         IN  \E i \in 1..Len(patterns) :
                 LET pattern == Replace(patterns[i], "\\", "/")
                 IN  fnmatch(rel_str, pattern) \/ fnmatch(Name(file_path), pattern)

\* what zipf.write(file_path, arcname) adds to the archive
Member(file_path, arcname) ==
    [arcname |-> Join(arcname), data |-> fs[file_path].content]

\* line 149: zipfile.ZipFile(output_path, "w") creates or truncates the file
OpenArchive ==
    /\ pc = "open"
    /\ IF is_dir(output_path)
       THEN /\ Raise("IsADirectoryError")
            /\ UNCHANGED <<fs, zipf, stack, written>>
       ELSE LET opened == (output_path :> FileEntry("zip, open")) @@ fs
                \* line 150, evaluated once the archive file is there
                single == opened[source_path].kind = "file"
            IN  /\ fs' = opened
                /\ written' = written \cup {output_path}
                /\ zipf' = "open"
                /\ stack' = IF single THEN <<>> ELSE <<source_path>>
                /\ pc' = IF single THEN "single" ELSE "walk"
                /\ UNCHANGED error
    /\ UNCHANGED <<options, source_path, output_path, exclude_patterns, members,
                   root, files, meta_path, return_values, visited>>

\* lines 150-153: a single file goes in under its bare name
WriteSingleFile ==
    /\ pc = "single"
    /\ members' =
         IF ~ShouldExclude(source_path, Parent(source_path), exclude_patterns)
         THEN Append(members, Member(source_path, <<Name(source_path)>>))
         ELSE members
    /\ pc' = "walk"
    /\ UNCHANGED <<options, fs, error, source_path, output_path, exclude_patterns,
                   zipf, stack, root, files, meta_path, return_values, visited,
                   written>>

\* ExitWithError for an archive opened without the with statement
ExitWithoutClose(e) == Raise(e) /\ UNCHANGED <<zipf, fs>>

\* the with statement of line 149 closes the archive when an exception
\* leaves its body; the file stays where it is
ExitWithError(e) ==
    /\ zipf' = "closed"
    /\ fs' = [fs EXCEPT ![output_path].content = "zip, closed"]
    /\ Raise(e)

\* line 153: zipf.write raises an I/O error
WriteSingleFileFails ==
    /\ pc = "single"
    /\ ~ShouldExclude(source_path, Parent(source_path), exclude_patterns)
    /\ ExitWithError("OSError in zipf.write")
    /\ UNCHANGED <<options, source_path, output_path, exclude_patterns, members,
                   stack, root, files, meta_path, return_values, visited, written>>

RECURSIVE Perms(_)
\* the orders in which a directory listing may come
Perms(S) ==
    IF S = {} THEN {<<>>}
    ELSE UNION {{<<x>> \o t : t \in Perms(S \ {x})} : x \in S}

Children(top) == {p \in DOMAIN fs : Len(p) = Len(top) + 1 /\ Parent(p) = top}

\* RetainedDirs without the pruning of lines 158-164
AllSubdirs(top) == {p \in Children(top) : fs[p].kind = "dir"}

\* lines 158-164: the subdirectories os.walk goes on to
RetainedDirs(top) ==
    {p \in Children(top) :
        fs[p].kind = "dir" /\ ~ShouldExclude(p, source_path, exclude_patterns)}

\* lines 156-164: os.walk lists the next directory, the loop body prunes its
\* subdirectories and os.walk will descend into the rest, in listing order
WalkVisit ==
    /\ pc = "walk"
    /\ files = {}
    /\ stack # <<>>
    /\ LET top == Head(stack)
       IN  /\ root' = top
           /\ visited' = visited \cup {top}
           /\ files' = {p \in Children(top) : fs[p].kind = "file"}
           /\ \E order \in Perms(RetainedDirs(top)) : stack' = order \o Tail(stack)
    /\ UNCHANGED <<options, fs, pc, error, source_path, output_path,
                   exclude_patterns, zipf, members, meta_path, return_values,
                   written>>

\* lines 166-172: the next file of the listing
ProcessFile ==
    /\ pc = "walk"
    /\ \E file_path \in files :
        /\ files' = files \ {file_path}
        /\ members' =
             IF ~ShouldExclude(file_path, source_path, exclude_patterns)
             THEN Append(members, Member(file_path, RelativeTo(file_path, source_path)))
             ELSE members
    /\ UNCHANGED <<options, fs, pc, error, source_path, output_path,
                   exclude_patterns, zipf, stack, root, meta_path, return_values,
                   visited, written>>

\* line 172: zipf.write raises an I/O error
ProcessFileFails ==
    /\ pc = "walk"
    /\ \E file_path \in files :
        ~ShouldExclude(file_path, source_path, exclude_patterns)
    /\ ExitWithError("OSError in zipf.write")
    /\ UNCHANGED <<options, source_path, output_path, exclude_patterns, members,
                   stack, root, files, meta_path, return_values, visited, written>>

\* line 149: the with statement ends, the archive is finished
CloseArchive ==
    /\ pc = "walk"
    /\ files = {}
    /\ stack = <<>>
    /\ zipf' = "closed"
    /\ fs' = [fs EXCEPT ![output_path].content = "zip, closed"]
    /\ pc' = "meta"
    /\ UNCHANGED <<options, error, source_path, output_path, exclude_patterns,
                   members, stack, root, files, meta_path, return_values, visited,
                   written>>

\* MetaPath appending the suffix to the whole archive name
MetaPathAppend(out) == WithName(out, Name(out) \o MetaSuffix)

\* line 190
MetaPath(out) == WithSuffix(out, MetaSuffix)

\* WriteMeta reporting the sidecar path whether or not it wrote the file
WriteMetaAlwaysReports ==
    /\ pc = "meta"
    /\ meta_path' = WithSuffix(output_path, MetaSuffix)
    /\ IF IncludeMeta(options.include_meta)
       THEN /\ fs' = (meta_path' :> FileEntry(meta_content)) @@ fs
            /\ written' = written \cup {meta_path'}
       ELSE UNCHANGED <<fs, written>>
    /\ return_values' = [zip_path |-> output_path, meta_path |-> meta_path']
    /\ pc' = "done"
    /\ UNCHANGED <<options, error, source_path, output_path, exclude_patterns,
                   zipf, members, stack, root, files, visited>>

\* lines 177-198: the sidecar and the result
WriteMeta ==
    /\ pc = "meta"
    /\ IF IncludeMeta(options.include_meta)
       THEN /\ meta_path' = MetaPath(output_path)
            /\ IF is_dir(meta_path')
               THEN /\ Raise("IsADirectoryError")
                    /\ UNCHANGED <<fs, written, return_values>>
               ELSE /\ fs' = (meta_path' :> FileEntry(meta_content)) @@ fs
                    /\ written' = written \cup {meta_path'}
                    /\ return_values' =
                         [zip_path |-> output_path, meta_path |-> meta_path']
                    /\ pc' = "done"
                    /\ UNCHANGED error
       ELSE /\ return_values' = [zip_path |-> output_path]
            /\ pc' = "done"
            /\ UNCHANGED <<fs, written, meta_path, error>>
    /\ UNCHANGED <<options, source_path, output_path, exclude_patterns, zipf,
                   members, stack, root, files, visited>>

\* line 191: write_text raises an I/O error, before or after it has created
\* or truncated the file
WriteMetaFails ==
    /\ pc = "meta"
    /\ IncludeMeta(options.include_meta)
    /\ meta_path' = MetaPath(output_path)
    /\ ~is_dir(meta_path')
    /\ \E truncated \in BOOLEAN :
        IF truncated
        THEN /\ fs' = (meta_path' :> FileEntry("")) @@ fs
             /\ written' = written \cup {meta_path'}
        ELSE UNCHANGED <<fs, written>>
    /\ Raise("OSError in write_text")
    /\ UNCHANGED <<options, source_path, output_path, exclude_patterns, zipf,
                   members, stack, root, files, return_values, visited>>

Next ==
    \/ CheckPath
    \/ DetermineOutput
    \/ MakeParents
    \/ GetExclude
    \/ OpenArchive
    \/ WriteSingleFile
    \/ WriteSingleFileFails
    \/ WalkVisit
    \/ ProcessFile
    \/ ProcessFileFails
    \/ CloseArchive
    \/ WriteMeta
    \/ WriteMetaFails

Spec == Init /\ [][Next]_vars

(***************************************************************************)
(* Properties.                                                             *)
(***************************************************************************)
\* the regular files below directory src in filesystem tree
FilesUnder(tree, src) ==
    {p \in DOMAIN tree :
        tree[p].kind = "file" /\ Len(p) > Len(src) /\ IsPrefix(src, p)}

\* the archive name a path below the source is expected to get
RelStr(p) == Join(RelativeTo(p, source_path))

\* how many members of the archive carry the name
Count(arcname) == Cardinality({i \in 1..Len(members) : members[i].arcname = arcname})

\* name splits after n characters into a stem and its extension: the part
\* from the last dot on, unless that dot starts or ends the name
SplitsAt(name, n) ==
    LET ext == SubSeq(name, n + 1, Len(name))
    IN  IF ext = <<>>
        THEN Last(name) = "." \/ \A i \in 2..Len(name) : name[i] # "."
        ELSE n >= 1 /\ Len(ext) >= 2 /\ ext[1] = "."
             /\ \A i \in 2..Len(ext) : ext[i] # "."

\* new is old with its extension replaced by suffix, in the same directory
ExtensionReplaced(old, new, suffix) ==
    /\ Parent(new) = Parent(old)
    /\ \E n \in 0..Len(Name(old)) :
          /\ SplitsAt(Name(old), n)
          /\ Name(new) = SubSeq(Name(old), 1, n) \o suffix

PathAbsentOrEmpty == options.path.k = "none" \/ (options.path.k = "str" /\ options.path.v = <<>>)

\* C1: a run that fails input validation leaves the filesystem unchanged: an
\* absent or empty path option ends the run with the missing-option error
\* (ValueError), a resolved path that does not exist ends it with the
\* path-not-found error (FileNotFoundError), and in both cases nothing has been
\* created or modified.
C1_ValidationBeforeWrites ==
    /\ (pc # "start" /\ PathAbsentOrEmpty)
          => (pc = "failed" /\ error = "ValueError" /\ fs = InitFS /\ written = {})
    /\ (pc # "start" /\ source_path # NoPath /\ source_path \notin DOMAIN InitFS)
          => (pc = "failed" /\ error = "FileNotFoundError" /\ fs = InitFS /\ written = {})
    /\ error \in {"ValueError", "FileNotFoundError"} => (fs = InitFS /\ written = {})

C1_Witness ==
    /\ pc = "failed"
    /\ error = "FileNotFoundError"
    /\ source_path = <<W, <<"z", "z">>>>
    /\ options.output.k = "str"

C2_Holds(tree) ==
    /\ \A p \in FilesUnder(tree, source_path) : Count(RelStr(p)) = 1
    /\ \A i \in 1..Len(members) :
          \E p \in FilesUnder(tree, source_path) : members[i].arcname = RelStr(p)

\* C2: for a directory source and an empty exclusion list, after a successful
\* run every regular file under the source directory is a member of the
\* archive exactly once, under its path relative to the source, and the archive
\* has no other members.  The source directory is taken as the run found it or
\* as the run left it, whichever favours the claim.
C2_EveryFileOnce ==
    (pc = "done" /\ is_dir(source_path) /\ exclude_patterns = <<>>)
        => (C2_Holds(InitFS) \/ C2_Holds(fs))

\* the directories below the source that an exclusion pattern matches
ExcludedDirs ==
    {p \in DOMAIN fs :
        /\ fs[p].kind = "dir"
        /\ Len(p) > Len(source_path)
        /\ IsPrefix(source_path, p)
        /\ ShouldExclude(p, source_path, exclude_patterns)}

\* C3: for a directory source, a subdirectory matched by an exclusion pattern
\* is pruned before the walk descends: neither it nor anything beneath it is
\* ever listed, queued or read by the walk, and no file beneath it is in the
\* archive, at any depth.
C3_PrunedSubtrees ==
    (zipf # "none" /\ is_dir(source_path)) =>
        \A p \in ExcludedDirs :
            /\ \A q \in visited \cup files \cup {stack[i] : i \in 1..Len(stack)} :
                  ~IsPrefix(p, q)
            /\ root = NoPath \/ ~IsPrefix(p, root)
            /\ \A i \in 1..Len(members) :
                  ~IsPrefix(RelStr(p) \o Slash, members[i].arcname)

C3_Witness ==
    /\ pc = "done"
    /\ source_path = <<W, D>>
    /\ EDir(1) \in ExcludedDirs
    /\ EDir(0) \in visited
    /\ members # <<>>

OutputAbsentOrEmpty ==
    options.output.k = "none" \/ (options.output.k = "str" /\ options.output.v = <<>>)

Kept(p) ==
    \A n \in (Len(source_path) + 1)..Len(p) :
        ~ShouldExclude(SubSeq(p, 1, n), source_path, exclude_patterns)

\* the filtered source tree: relative path and content of every kept file
FilteredTree(tree) ==
    {<<RelStr(p), tree[p].content>> : p \in {q \in FilesUnder(tree, source_path) : Kept(q)}}

\* what extracting the archive yields (a later member replaces an earlier one
\* of the same name)
Extracted ==
    {<<members[i].arcname, members[i].data>> :
        i \in {j \in 1..Len(members) :
                  \A l \in (j + 1)..Len(members) : members[l].arcname # members[j].arcname}}

\* C5: round trip: after a successful run on a directory source, with any
\* exclusion list, extracting the archive yields the filtered source tree: the
\* same relative paths with the same contents, nothing missing, nothing extra.
\* The source tree is taken as the run found it or as the run left it,
\* whichever favours the claim.
C5_RoundTrip ==
    (pc = "done" /\ is_dir(source_path))
        => (Extracted = FilteredTree(InitFS) \/ Extracted = FilteredTree(fs))

\* C6: when include_meta resolves to true and the run succeeds, the sidecar
\* path (the archive path with its extension replaced by .resource-meta.xml)
\* holds a file whose content is exactly the fixed XML document, whatever the
\* archive holds and whatever was at that path before.
C6_SidecarWritten ==
    (pc = "done" /\ IncludeMeta(options.include_meta)) =>
        \E p \in DOMAIN fs :
            /\ ExtensionReplaced(output_path, p, MetaSuffix)
            /\ fs[p] = FileEntry(meta_content)
            /\ meta_path = p

C6_Witness ==
    /\ pc = "done"
    /\ meta_path = <<W, NMeta>>
    /\ InitFS[meta_path].content = "data n"
    /\ fs[meta_path].content = meta_content
    /\ members = <<>>

\* s is "true", "1" or "yes" up to the case of its letters
IsTrueString(s) ==
    \/ /\ Len(s) = 4
       /\ s[1] \in {"t", "T"} /\ s[2] \in {"r", "R"}
       /\ s[3] \in {"u", "U"} /\ s[4] \in {"e", "E"}
    \/ s = <<"1">>
    \/ /\ Len(s) = 3
       /\ s[1] \in {"y", "Y"} /\ s[2] \in {"e", "E"} /\ s[3] \in {"s", "S"}

\* C7: include_meta given as a string is true exactly when its lower-cased
\* value is true, 1 or yes, and false for every other string; an absent option
\* is false.  (A run that succeeds produces the sidecar exactly when the
\* option is true.)
C7_IncludeMetaStrings ==
    pc = "done" =>
        /\ options.include_meta.k = "str"
              => (("meta_path" \in DOMAIN return_values) <=> IsTrueString(options.include_meta.v))
        /\ options.include_meta.k = "none" => "meta_path" \notin DOMAIN return_values

C7_Witness ==
    /\ pc = "done"
    /\ options.include_meta.k = "str"
    /\ options.include_meta.v = <<"Y", "E", "S">>
    /\ "meta_path" \in DOMAIN return_values

\* C8: after a successful run the result holds the archive path, and holds
\* the sidecar path if and only if the sidecar was written in this run, which
\* happens only when include_meta resolved to true; when include_meta is false
\* the file at the sidecar path is neither created nor modified; a run that
\* ends in an error sets no result.
C8_ResultRecord ==
    /\ pc = "done" =>
          /\ "zip_path" \in DOMAIN return_values
          /\ return_values["zip_path"] = output_path
          /\ ("meta_path" \in DOMAIN return_values) <=> (MetaPath(output_path) \in written)
          /\ "meta_path" \in DOMAIN return_values
                => return_values["meta_path"] = MetaPath(output_path)
          /\ MetaPath(output_path) \in written => IncludeMeta(options.include_meta)
          /\ ~IncludeMeta(options.include_meta) =>
                /\ MetaPath(output_path) \notin written
                /\ exists(MetaPath(output_path)) <=> MetaPath(output_path) \in DOMAIN InitFS
                /\ exists(MetaPath(output_path))
                      => fs[MetaPath(output_path)] = InitFS[MetaPath(output_path)]
    /\ pc # "done" => DOMAIN return_values = {}

C8_Witness ==
    /\ pc = "done"
    /\ DOMAIN return_values = {"zip_path"}
    /\ options.include_meta.k = "str"
    /\ exists(MetaPath(output_path))

\* C9: the archive handle is acquired before the traversal begins and is
\* closed on every way out of it; after an I/O error in the middle of the
\* traversal the partly written archive is still on disk, the error reaches
\* the caller and the sidecar step is never reached.
C9_ScopedHandle ==
    /\ (visited # {} \/ members # <<>> \/ pc \in {"single", "walk"}) => zipf # "none"
    /\ pc \in {"single", "walk"} => zipf = "open"
    /\ pc \in {"meta", "done", "failed"} => zipf # "open"
    /\ error = "OSError in zipf.write" =>
          /\ pc = "failed"
          /\ zipf = "closed"
          /\ is_file(output_path)
          /\ meta_path = NoPath
          /\ MetaPath(output_path) \notin written
          /\ DOMAIN return_values = {}

C9_Witness ==
    /\ error = "OSError in zipf.write"
    /\ members # <<>>
    /\ files # {}
    /\ is_file(output_path)

\* C10: in every run that gets to open its archive the source path, the
\* archive path and the sidecar path are pairwise distinct, and the run never
\* writes to its own source.
C10_DistinctPaths ==
    zipf # "none" =>
        /\ source_path # output_path
        /\ source_path # MetaPath(output_path)
        /\ output_path # MetaPath(output_path)
        /\ source_path \notin written

====
